---------------------------- MODULE Spec2Model ----------------------------
(***************************************************************************)
(* A model of analyze_pr.py: the module-level environment validation, the  *)
(* PRAnalyzer methods and PRAnalyzer.run.                                  *)
(*                                                                         *)
(* Python values are records [t |-> <type name>, v |-> <payload>].  Text   *)
(* (str, bytes) is a sequence of lexemes: a lexeme is a character          *)
(* ("!", "[", ")", a quote, a newline) or an indivisible run of characters *)
(* that no pattern of the program splits ("<img", "src=", ".png",          *)
(* "http://x/").  A dict is a function from its keys to values.            *)
(***************************************************************************)
EXTENDS Integers, Sequences, FiniteSets, TLC

VARIABLES
    pc,            \* the position of the process in the script
    environ,       \* os.environ: GITHUB_TOKEN, GEMINI_API_KEY, GITHUB_EVENT_PATH
    context,       \* run: context
    pr_details,    \* run: pr_details
    images,        \* analyze_with_gemini: images_to_analyze
    fetched,       \* analyze_with_gemini: how many elements of the loop were done
    image_parts,   \* analyze_with_gemini: image_parts
    image_data,    \* analyze_with_gemini: image_data, the last download_image result
    analysis,      \* run: analysis
    success,       \* run: success
    calls,         \* every outbound call made so far, with its answer, in order
    exit_status,   \* <<>> while the process runs, <<n>> once it ended with status n
    fragments      \* SpecExtract: the fragments the description was written from

vars == <<pc, environ, context, pr_details, images, fetched, image_parts, image_data,
          analysis, success, calls, exit_status, fragments>>

-----------------------------------------------------------------------------
(* Bounds of the model. *)

\* the number of fragments a description of SpecExtract is built from
MaxFrags == 3

\* the largest number of distinct image URLs in a description of Spec
MaxImages == 4

-----------------------------------------------------------------------------
(* Python values. *)

None == [t |-> "None", v |-> <<>>]

Str(s) == [t |-> "str", v |-> s]

Bytes(b) == [t |-> "bytes", v |-> b]

PyInt(n) == [t |-> "int", v |-> <<ToString(n)>>]

Dict(f) == [t |-> "dict", v |-> f]

List(s) == [t |-> "list", v |-> s]

PyTrue == [t |-> "bool", v |-> <<"True">>]

PyFalse == [t |-> "bool", v |-> <<"False">>]

\* bool(x) of Python: None, "", b"", {} and [] are false
Truthy(x) ==
    CASE x.t = "None" -> FALSE
      [] x.t = "bool" -> x = PyTrue
      [] x.t = "dict" -> DOMAIN x.v # {}
      [] OTHER -> x.v # <<>>

\* d.get(key, default) on a dict d
Get(d, key, default) == IF key \in DOMAIN d.v THEN d.v[key] ELSE default

\* "{x}" inside an f-string: str(x)
Format(x) == IF x.t = "None" THEN <<"None">> ELSE x.v

SeqToSet(s) == {s[i] : i \in 1..Len(s)}

NoDuplicates(s) == \A i, j \in 1..Len(s) : s[i] = s[j] => i = j

\* every list that holds each element of S once: what list(set) may give
Orderings(S) ==
    {s \in [1..Cardinality(S) -> S] : \A i, j \in 1..Cardinality(S) : s[i] = s[j] => i = j}

Min(S) == CHOOSE x \in S : \A y \in S : x <= y

Max(S) == CHOOSE x \in S : \A y \in S : y <= x

-----------------------------------------------------------------------------
(* extract_images_from_description: the two patterns and re.findall. *)

Quotes == {"\"", "'"}

\* "." of a pattern matches every character but the newline
Dot(d, from, to) == \A i \in from..to : d[i] # "\n"

\* !\[.*?\]\((.*?)\) tried at position s of d.  Both .*? are lazy: the
\* match is the one with the least end j of the first and then the least
\* end k of the group.
MarkdownAt(d, s) ==
    LET n == Len(d)
        Close(j) == {k \in (j + 2)..n : d[k] = ")" /\ Dot(d, j + 2, k - 1)}
        Alt == {j \in (s + 2)..(n - 1) :
                    /\ Dot(d, s + 2, j - 1)
                    /\ d[j] = "]"
                    /\ d[j + 1] = "("
                    /\ Close(j) # {}}
    IN  IF s + 1 <= n /\ d[s] = "!" /\ d[s + 1] = "[" /\ Alt # {}
        THEN LET j == Min(Alt)
                 k == Min(Close(j))
             IN  [found |-> TRUE, group |-> SubSeq(d, j + 2, k - 1), end |-> k]
        ELSE [found |-> FALSE, group |-> <<>>, end |-> s]

\* <img[^>]+src=["\']([^"\']+)["\'] tried at position s of d.  [^>]+ is
\* greedy: the match is the one with the greatest end e of [^>]+; the group
\* is the run of non-quotes after the opening quote and is not empty.
HtmlAt(d, s) ==
    LET n == Len(d)
        Close(e) == {q \in (e + 4)..n :
                        /\ d[q] \in Quotes
                        /\ \A i \in (e + 3)..(q - 1) : d[i] \notin Quotes}
        Attr == {e \in (s + 1)..(n - 2) :
                    /\ \A i \in (s + 1)..e : d[i] # ">"
                    /\ d[e + 1] = "src="
                    /\ d[e + 2] \in Quotes
                    /\ Close(e) # {}}
    IN  IF s <= n /\ d[s] = "<img" /\ Attr # {}
        THEN LET e == Max(Attr)
                 q == Min(Close(e))
             IN  [found |-> TRUE, group |-> SubSeq(d, e + 3, q - 1), end |-> q]
        ELSE [found |-> FALSE, group |-> <<>>, end |-> s]

\* re.findall(pattern, d) for a pattern with one group: the groups of the
\* non-overlapping matches, found left to right from position pos
RECURSIVE MarkdownFindall(_, _)
MarkdownFindall(d, pos) ==
    LET starts == {s \in pos..Len(d) : MarkdownAt(d, s).found}
    IN  IF starts = {} THEN <<>>
        ELSE LET m == MarkdownAt(d, Min(starts))
             IN  <<m.group>> \o MarkdownFindall(d, m.end + 1)

RECURSIVE HtmlFindall(_, _)
HtmlFindall(d, pos) ==
    LET starts == {s \in pos..Len(d) : HtmlAt(d, s).found}
    IN  IF starts = {} THEN <<>>
        ELSE LET m == HtmlAt(d, Min(starts))
             IN  <<m.group>> \o HtmlFindall(d, m.end + 1)

markdown_matches(description) == MarkdownFindall(description.v, 1)

html_matches(description) == HtmlFindall(description.v, 1)

\* re.findall raises TypeError when the description is not a str
ExtractRaises(description) == description.t # "str"

\* a variant that returns the matches without removing the duplicates
ExtractKeepingDuplicates(description) ==
    {markdown_matches(description) \o html_matches(description)}

\* a variant that forgets the HTML matches
ExtractMarkdownOnly(description) ==
    Orderings(SeqToSet(markdown_matches(description)))

\* the lists extract_images_from_description(description) may return:
\* list(set(images)) holds each element once, in no defined order
extract_images_from_description(description) ==
    Orderings(SeqToSet(markdown_matches(description) \o html_matches(description)))

-----------------------------------------------------------------------------
(* The texts the model draws descriptions from. *)

\* image URLs with the suffixes analyze_with_gemini tells apart
Suffix(i) ==
    CASE i % 5 = 1 -> <<".png">>
      [] i % 5 = 2 -> <<".GIF">>
      [] i % 5 = 3 -> <<".webp">>
      [] i % 5 = 4 -> <<".jpg">>
      [] OTHER -> <<".png", "?raw=1">>

Url(i) == <<"http://x/", ToString(i)>> \o Suffix(i)

Md(u) == <<"!", "[", "shot", "]", "(">> \o u \o <<")">>

Html(u, q) == <<"<img", " ", "src=", q>> \o u \o <<q, ">">>

\* fragments that are an image in Markdown or HTML form
ImageFrags ==
    UNION {{[kind |-> "md", url |-> Url(i), text |-> Md(Url(i))],
            [kind |-> "html", url |-> Url(i), text |-> Html(Url(i), "\"")],
            [kind |-> "html", url |-> Url(i), text |-> Html(Url(i), "'")]} : i \in 1..2}

\* fragments without image syntax: plain text, a link, a line end
TextFrags ==
    {[kind |-> "text", url |-> <<>>, text |-> <<"no images here">>],
     [kind |-> "text", url |-> <<>>, text |-> <<"[", "link", "]", "(">> \o Url(1) \o <<")">>],
     [kind |-> "text", url |-> <<>>, text |-> <<"\n">>]}

\* fragments that look like an image and are not one, or are one only
\* together with their neighbours
OddFrags ==
    {[kind |-> "odd", url |-> <<>>, text |-> <<"!", "[", "shot", "]">>],
     [kind |-> "odd", url |-> <<>>, text |-> <<"!", "[", "]", "(", ")">>],
     [kind |-> "odd", url |-> <<>>, text |-> <<"!">>],
     [kind |-> "odd", url |-> <<>>, text |-> <<"<img", "src=", "\"">> \o Url(1) \o <<"\"", ">">>],
     [kind |-> "odd", url |-> <<>>, text |-> <<"<img", " ", "src=", "'">>],
     [kind |-> "odd", url |-> <<>>, text |-> <<"'", ">">>]}

RECURSIVE Flatten(_)
Flatten(fs) == IF fs = <<>> THEN <<>> ELSE Head(fs).text \o Flatten(Tail(fs))

FragSeqs(F, n) == UNION {[1..k -> F] : k \in 0..n}

\* a description with n Markdown images of distinct URLs, then the first h
\* of them again in HTML form
RunDescription(n, h) ==
    LET RECURSIVE Mds(_)
        Mds(i) == IF i > n THEN <<>> ELSE Md(Url(i)) \o <<"\n">> \o Mds(i + 1)
        RECURSIVE Htmls(_)
        Htmls(i) == IF i > h THEN <<>> ELSE Html(Url(i), "'") \o Htmls(i + 1)
    IN  Str(<<"no images here">> \o Mds(1) \o Htmls(1))

RunDescriptions ==
    {RunDescription(n, 0) : n \in 0..MaxImages}
        \cup {RunDescription(n, 1) : n \in 0..1}
        \cup {Str(<<>>), Str(<<"!", "[", "]", "(", ")">>)}

-----------------------------------------------------------------------------
(* The event files and the answers of the network. *)

\* a key that the JSON object does not have
Absent == [t |-> "absent", v |-> <<>>]

Field(key, x) == IF x = Absent THEN <<>> ELSE key :> x

Repository == Dict("full_name" :> Str(<<"acme/repo">>))

PullRequest(title, body) ==
    Dict(Field("title", title) @@ Field("body", body)
            @@ ("number" :> PyInt(42))
            @@ ("html_url" :> Str(<<"https://github.com/acme/repo/pull/42">>)))

Event(pull_request, repository) ==
    Dict(Field("pull_request", pull_request) @@ Field("repository", repository)
            @@ ("action" :> Str(<<"opened">>)))

Titles == {Absent, None, Str(<<"Fix bug">>)}

\* what the file at GITHUB_EVENT_PATH may hold: events that are no
\* pull-request event, pull requests with every shape of title, body and
\* repository, and pull requests with every description of RunDescriptions
EventFiles ==
    {[kind |-> "missing", json |-> None],
     [kind |-> "invalid_json", json |-> None],
     [kind |-> "unreadable", json |-> None],
     [kind |-> "json", json |-> List(<<>>)]}
    \cup {[kind |-> "json", json |-> Event(p, Repository)] :
            p \in {Absent, None, Dict(<<>>), Str(<<"opened">>)}}
    \cup {[kind |-> "json", json |-> Event(PullRequest(title, body), repository)] :
            title \in Titles,
            body \in {Absent, None, RunDescription(0, 0), RunDescription(1, 1)},
            repository \in {Absent, None, Repository}}
    \cup {[kind |-> "json", json |-> Event(PullRequest(Str(<<"Fix bug">>), body), Repository)] :
            body \in RunDescriptions}

Response(exc, status, body) == [exc |-> exc, status |-> status, body |-> body]

\* requests raises on a URL without a scheme and a host
ValidUrl(image_url) == Len(image_url) > 0 /\ image_url[1] = "http://x/"

\* the outcomes of requests.get(image_url, timeout=10)
GetResponses(image_url) ==
    IF ValidUrl(image_url)
    THEN {Response("", 200, Bytes(<<"image of">> \o image_url)),
          Response("", 200, Bytes(<<>>)),
          Response("", 404, Bytes(<<"Not Found">>)),
          Response("Timeout", 0, None),
          Response("ConnectionError", 0, None)}
    ELSE {Response("MissingSchema", 0, None)}

\* the outcomes of model.generate_content and of response.text: a text, a
\* blank text, an exception of the call, a response whose .text raises
GenerateResponses ==
    {Response("", 200, Str(<<" ", "Looks good.", "\n", "Add a test.", "\n">>)),
     Response("", 200, Str(<<"\n">>)),
     Response("ResourceExhausted", 0, None),
     Response("", 200, None)}

\* the outcomes of requests.post: the body is the JSON value of the
\* response, or a str when the response is no JSON.  The host creates a
\* comment only in a repository that it knows.
PostResponses(repo) ==
    {Response("", 200, Dict("id" :> PyInt(1001))),
     Response("", 403, Dict("message" :> Str(<<"Forbidden">>))),
     Response("ConnectionError", 0, None)}
    \cup (IF repo.t = "str"
          THEN {Response("", 201, Dict("id" :> PyInt(1001))),
                Response("", 201, Dict("node_id" :> Str(<<"IC_1">>))),
                Response("", 201, Str(<<"<html>">>))}
          ELSE {Response("", 404, Dict("message" :> Str(<<"Not Found">>)))})

Call(op, url, sent, response) ==
    [op |-> op, url |-> url, sent |-> sent, response |-> response]

-----------------------------------------------------------------------------
(* The methods of PRAnalyzer, as functions of their inputs. *)

EnvNames == {"GITHUB_TOKEN", "GEMINI_API_KEY", "GITHUB_EVENT_PATH"}

\* lines 17, 21, 25: "if not X" is true of an unset and of an empty variable
EnvironmentInvalid(env) == \E name \in EnvNames : ~Truthy(env[name])

\* load_github_context: the context, or exit 1 on a missing or invalid
\* file.  Another OSError of open is not caught: the interpreter prints the
\* traceback and ends with status 1 as well.
load_github_context(file) ==
    IF file.kind = "json"
    THEN [exits |-> FALSE, value |-> file.json]
    ELSE [exits |-> TRUE, value |-> None]

\* a variant that tells a missing key only: "if pr is None"
MissingPullRequestNoneOnly(pr) == pr.t = "None"

\* line 59: "if not pr"
MissingPullRequest(pr) == ~Truthy(pr)

\* extract_pr_details: the details, or exit 1.  .get on a value that is no
\* dict raises AttributeError, which line 72 turns into exit 1.
extract_pr_details(ctx) ==
    LET fail == [exits |-> TRUE, value |-> None]
    IN  IF ctx.t # "dict" THEN fail
        ELSE LET pr == Get(ctx, "pull_request", None)
                 repository == Get(ctx, "repository", Dict(<<>>))
             IN  IF MissingPullRequest(pr) THEN fail
                 ELSE IF pr.t # "dict" THEN fail
                 ELSE IF repository.t # "dict" THEN fail
                 ELSE [exits |-> FALSE,
                       value |-> Dict([title |-> Get(pr, "title", Str(<<>>)),
                                       description |-> Get(pr, "body", Str(<<>>)),
                                       number |-> Get(pr, "number", None),
                                       url |-> Get(pr, "html_url", None),
                                       repo |-> Get(repository, "full_name", None)])]

\* a variant that takes every answer for an image
DownloadAnyStatus(response) == IF response.exc # "" THEN None ELSE response.body

\* download_image: response.content on status 200, None on another status
\* and on every exception of requests.get
download_image(response) ==
    IF response.exc # "" THEN None
    ELSE IF response.status = 200 THEN response.body
    ELSE None

\* str.lower on the lexemes of a URL
Lower(lexeme) ==
    CASE lexeme = ".GIF" -> ".gif"
      [] lexeme = ".PNG" -> ".png"
      [] lexeme = ".WEBP" -> ".webp"
      [] OTHER -> lexeme

EndsWith(image_url, suffix) ==
    Len(image_url) > 0 /\ Lower(image_url[Len(image_url)]) = suffix

\* lines 138-145
mime_type(image_url) ==
    IF EndsWith(image_url, ".png") THEN "image/png"
    ELSE IF EndsWith(image_url, ".gif") THEN "image/gif"
    ELSE IF EndsWith(image_url, ".webp") THEN "image/webp"
    ELSE "image/jpeg"

ImagePart(image_url, content) ==
    Dict([mime_type |-> Str(<<mime_type(image_url)>>), data |-> content])

\* a variant that attaches whatever is not None
AttachNotNone(content) == content.t # "None"

\* line 136: "if image_data"
Attach(content) == Truthy(content)

ImageLimit == 3

\* a variant without the limit
NoImageLimit(images_to_analyze) == images_to_analyze

\* line 134: images_to_analyze[:3]
ImagesToDownload(images_to_analyze) ==
    SubSeq(images_to_analyze, 1, Min({ImageLimit, Len(images_to_analyze)}))

\* lines 111-124
Prompt(details) ==
    <<"You are a helpful code reviewer AI assistant.", "Pull Request Title: ">>
        \o Format(details.v.title)
        \o <<"Pull Request Description:">> \o Format(details.v.description)
        \o <<"Repository: ">> \o Format(details.v.repo)
        \o <<"Format as plain text, exactly 2 lines.">>

\* lines 152-160: the content given to model.generate_content
Content(details, images_to_analyze, parts) ==
    IF images_to_analyze # <<>> /\ parts # <<>>
    THEN List(<<Str(Prompt(details))>> \o parts)
    ELSE Str(Prompt(details))

Whitespace == {" ", "\n"}

\* str.strip
RECURSIVE Strip(_)
Strip(text) ==
    IF text = <<>> THEN <<>>
    ELSE IF Head(text) \in Whitespace THEN Strip(Tail(text))
    ELSE IF text[Len(text)] \in Whitespace THEN Strip(SubSeq(text, 1, Len(text) - 1))
    ELSE text

\* a variant that takes a response without text for an empty analysis
GenerateFailsOnExceptionOnly(response) == response.exc # ""

\* lines 156-167: generate_content raises, or response.text raises
GenerateFails(response) == response.exc # "" \/ response.body.t # "str"

\* lines 172-176
CommentUrl(repo, pr_number) ==
    <<"https://api.github.com/repos/">> \o Format(repo) \o <<"/issues/">>
        \o Format(pr_number) \o <<"/comments">>

CommentData(comment_body) ==
    Dict("body" :> Str(<<"AI Analysis:", "\n", "\n">> \o Format(comment_body)))

\* post_comment_on_pr: True, False, or exit 1 on an exception.  On status
\* 201 response.json() raises on a body that is no JSON, and comment['id']
\* raises on a JSON value without "id"; line 190 turns both into exit 1.
post_comment_on_pr(response) ==
    IF response.exc # "" THEN [exits |-> TRUE, value |-> None]
    ELSE IF response.status = 201
         THEN IF response.body.t = "dict" /\ "id" \in DOMAIN response.body.v
              THEN [exits |-> FALSE, value |-> PyTrue]
              ELSE [exits |-> TRUE, value |-> None]
    ELSE [exits |-> FALSE, value |-> PyFalse]

-----------------------------------------------------------------------------
(* The process: one action per stage of the script. *)

\* sys.exit(n), and the end of the script with n = 0
Exit(n) == pc' = "exited" /\ exit_status' = <<n>>

Init ==
    /\ pc = "validate"
    /\ environ \in [EnvNames -> {None, Str(<<>>), Str(<<"value">>)}]
    /\ context = None
    /\ pr_details = None
    /\ images = <<>>
    /\ fetched = 0
    /\ image_parts = <<>>
    /\ image_data = None
    /\ analysis = None
    /\ success = None
    /\ calls = <<>>
    /\ exit_status = <<>>
    /\ fragments = <<>>

\* lines 12-30 and 236-237
ValidateEnvironment ==
    /\ pc = "validate"
    /\ IF EnvironmentInvalid(environ)
       THEN Exit(1)
       ELSE pc' = "load" /\ UNCHANGED exit_status
    /\ UNCHANGED <<environ, context, pr_details, images, fetched, image_parts, image_data,
                   analysis, success, calls, fragments>>

\* run, lines 200-202
LoadGithubContext ==
    /\ pc = "load"
    /\ \E file \in EventFiles :
          LET r == load_github_context(file)
          IN  IF r.exits
              THEN Exit(1) /\ UNCHANGED context
              ELSE pc' = "extract" /\ context' = r.value /\ UNCHANGED exit_status
    /\ UNCHANGED <<environ, pr_details, images, fetched, image_parts, image_data,
                   analysis, success, calls, fragments>>

\* run, lines 204-208
ExtractPRDetails ==
    /\ pc = "extract"
    /\ LET r == extract_pr_details(context)
       IN  IF r.exits
           THEN Exit(1) /\ UNCHANGED pr_details
           ELSE pc' = "analyze" /\ pr_details' = r.value /\ UNCHANGED exit_status
    /\ UNCHANGED <<environ, context, images, fetched, image_parts, image_data,
                   analysis, success, calls, fragments>>

\* analyze_with_gemini, lines 107-133: the prompt, the image URLs of the
\* description, and the choice between the loop and the text-only call
ExtractImages ==
    /\ pc = "analyze"
    /\ IF ExtractRaises(pr_details.v.description)
       THEN Exit(1) /\ UNCHANGED images
       ELSE /\ images' \in extract_images_from_description(pr_details.v.description)
            /\ pc' = IF images' # <<>> THEN "download" ELSE "generate"
            /\ UNCHANGED exit_status
    /\ UNCHANGED <<environ, context, pr_details, fetched, image_parts, image_data,
                   analysis, success, calls, fragments>>

\* analyze_with_gemini, lines 134-150: one round of the loop
DownloadImage ==
    /\ pc = "download"
    /\ LET image_url == ImagesToDownload(images)[fetched + 1]
       IN  \E response \in GetResponses(image_url) :
              /\ calls' = Append(calls, Call("GET", image_url, None, response))
              /\ image_data' = download_image(response)
              /\ image_parts' = IF Attach(image_data')
                                THEN Append(image_parts, ImagePart(image_url, image_data'))
                                ELSE image_parts
    /\ fetched' = fetched + 1
    /\ pc' = IF fetched' < Len(ImagesToDownload(images)) THEN "download" ELSE "generate"
    /\ UNCHANGED <<environ, context, pr_details, images, analysis, success,
                   exit_status, fragments>>

\* analyze_with_gemini, lines 152-167
GenerateContent ==
    /\ pc = "generate"
    /\ \E response \in GenerateResponses :
          /\ calls' = Append(calls, Call("generate_content", <<"gemini-2.0-flash">>,
                                         Content(pr_details, images, image_parts), response))
          /\ IF GenerateFails(response)
             THEN Exit(1) /\ UNCHANGED analysis
             ELSE /\ analysis' = Str(Strip(Format(response.body)))
                  /\ pc' = "post"
                  /\ UNCHANGED exit_status
    /\ UNCHANGED <<environ, context, pr_details, images, fetched, image_parts, image_data,
                   success, fragments>>

\* run, lines 219-225, and post_comment_on_pr
PostComment ==
    /\ pc = "post"
    /\ \E response \in PostResponses(pr_details.v.repo) :
          LET r == post_comment_on_pr(response)
          IN  /\ calls' = Append(calls, Call("POST",
                                             CommentUrl(pr_details.v.repo, pr_details.v.number),
                                             CommentData(analysis), response))
              /\ IF r.exits
                 THEN Exit(1) /\ UNCHANGED success
                 ELSE pc' = "posted" /\ success' = r.value /\ UNCHANGED exit_status
    /\ UNCHANGED <<environ, context, pr_details, images, fetched, image_parts, image_data,
                   analysis, fragments>>

\* run, lines 227-233, and the end of the script
Finish ==
    /\ pc = "posted"
    /\ IF Truthy(success) THEN Exit(0) ELSE Exit(1)
    /\ UNCHANGED <<environ, context, pr_details, images, fetched, image_parts, image_data,
                   analysis, success, calls, fragments>>

Next ==
    \/ ValidateEnvironment
    \/ LoadGithubContext
    \/ ExtractPRDetails
    \/ ExtractImages
    \/ DownloadImage
    \/ GenerateContent
    \/ PostComment
    \/ Finish

Spec == Init /\ [][Next]_vars

-----------------------------------------------------------------------------
(* extract_images_from_description alone, on descriptions written from     *)
(* fragments.                                                              *)

InitExtract ==
    /\ pc = "analyze"
    /\ environ = [name \in EnvNames |-> Str(<<"value">>)]
    /\ context = None
    /\ fragments \in FragSeqs(ImageFrags \cup TextFrags \cup OddFrags, MaxFrags)
    /\ pr_details = Dict([title |-> Str(<<>>), description |-> Str(Flatten(fragments)),
                          number |-> None, url |-> None, repo |-> None])
    /\ images = <<>>
    /\ fetched = 0
    /\ image_parts = <<>>
    /\ image_data = None
    /\ analysis = None
    /\ success = None
    /\ calls = <<>>
    /\ exit_status = <<>>

NextExtract == ExtractImages

SpecExtract == InitExtract /\ [][NextExtract]_vars

-----------------------------------------------------------------------------
(* What the claims speak of, read from the state. *)

Exited == exit_status # <<>>

CallsOf(op) == {i \in 1..Len(calls) : calls[i].op = op}

Answered(i, status) == calls[i].response.exc = "" /\ calls[i].response.status = status

\* the event file was read and parsed
Loaded == context # None

\* the event has a pull_request that is an object with a member
HasPullRequest ==
    /\ context.t = "dict"
    /\ "pull_request" \in DOMAIN context.v
    /\ context.v["pull_request"].t = "dict"
    /\ DOMAIN context.v["pull_request"].v # {}

\* the generative-AI call gave a text / failed
ReturnedText(i) == calls[i].response.exc = "" /\ calls[i].response.body.t = "str"

\* the number of GETs the loop makes for the list in images
Planned == IF Len(images) < 3 THEN Len(images) ELSE 3

-----------------------------------------------------------------------------
\* C1: every run ends with status 0 or 1, and the status is 0 exactly when
\* the event file loaded, the event has a pull_request, the AI call returned
\* text and the comment POST answered 201; every other end has status 1.
C1_ExitStatusZeroIffFullSuccess ==
    Exited =>
        /\ exit_status \in {<<0>>, <<1>>}
        /\ exit_status = <<0>> <=>
              /\ Loaded
              /\ HasPullRequest
              /\ \E i \in CallsOf("generate_content") : ReturnedText(i)
              /\ \E i \in CallsOf("POST") : Answered(i, 201)

\* C2: an event without a pull_request object (key absent, null, empty, or
\* no object at all) ends the run with status 1 inside extract_pr_details:
\* no details were extracted and no outbound call was ever made.
C2_NoPullRequestExitsBeforeAnyCall ==
    (Loaded /\ ~HasPullRequest /\ pc # "extract") =>
        /\ exit_status = <<1>>
        /\ pr_details = None
        /\ calls = <<>>

C2_Witness ==
    /\ Loaded
    /\ context.t = "dict"
    /\ "pull_request" \in DOMAIN context.v
    /\ context.v["pull_request"] = Dict(<<>>)
    /\ exit_status = <<1>>
    /\ calls = <<>>

\* C3: post_comment_on_pr returns True exactly when the POST answered 201
\* and False on every other status, without ending the process; only an
\* exception of the POST ends the process inside it.
C3_PostReturnsTrueIff201 ==
    \A i \in CallsOf("POST") :
        IF calls[i].response.exc # ""
        THEN exit_status = <<1>> /\ success = None
        ELSE success = (IF calls[i].response.status = 201 THEN PyTrue ELSE PyFalse)

\* C4: download_image returns the content exactly when the GET answered
\* 200 and None on every other status, timeout or transport failure; it
\* never ends the run: the loop goes on to the next URL and then to the AI
\* call, which is made after every planned GET whatever their outcomes.
C4_DownloadReturnsDataIff200 ==
    /\ (calls # <<>> /\ calls[Len(calls)].op = "GET") =>
          /\ image_data # None <=> Answered(Len(calls), 200)
          /\ image_data # None => image_data = calls[Len(calls)].response.body
          /\ ~Exited
          /\ pc = (IF Cardinality(CallsOf("GET")) < Planned THEN "download" ELSE "generate")
    /\ (Exited /\ CallsOf("GET") # {}) =>
          /\ Cardinality(CallsOf("GET")) = Planned
          /\ CallsOf("generate_content") # {}

C4_Witness ==
    /\ Len(calls) >= 4
    /\ calls[1].op = "GET" /\ Answered(1, 404) /\ image_data = None
    /\ calls[2].op = "GET" /\ calls[2].response.exc = "Timeout"
    /\ calls[3].op = "GET" /\ calls[3].response.exc = "ConnectionError"
    /\ calls[4].op = "generate_content"

\* C5: a failed generative-AI invocation (an exception of the call, or a
\* response without text) ends the run with status 1 at once: it is the
\* last call of the run, the model is not invoked again and no comment is
\* posted.
C5_GenerateFailureIsFatal ==
    \A i \in CallsOf("generate_content") :
        ~ReturnedText(i) =>
            /\ exit_status = <<1>>
            /\ i = Len(calls)
            /\ CallsOf("generate_content") = {i}
            /\ CallsOf("POST") = {}
            /\ analysis = None

C5_Witness ==
    /\ calls # <<>>
    /\ calls[Len(calls)].op = "generate_content"
    /\ calls[Len(calls)].response.exc = "ResourceExhausted"
    /\ CallsOf("GET") # {}
    /\ exit_status = <<1>>

-----------------------------------------------------------------------------
\* C6: extract_images_from_description returns a list without repeated
\* elements whose elements are exactly the URLs captured by the Markdown
\* pattern and those captured by the HTML pattern.  For a description
\* written from well-formed images, links and text that is the set of the
\* URLs of its images, each once (N + M for N Markdown and M other HTML
\* URLs), and the empty list when it has no image.
UrlsOf(kind) == {fragments[i].url : i \in {j \in 1..Len(fragments) : fragments[j].kind = kind}}

C6_ExtractGivesUnionOnce ==
    pc # "analyze" =>
        /\ NoDuplicates(images)
        /\ SeqToSet(images) =
              SeqToSet(MarkdownFindall(Flatten(fragments), 1))
                  \cup SeqToSet(HtmlFindall(Flatten(fragments), 1))
        /\ (\A i \in 1..Len(fragments) : fragments[i] \in ImageFrags \cup TextFrags) =>
              /\ SeqToSet(images) = UrlsOf("md") \cup UrlsOf("html")
              /\ Len(images) = Cardinality(UrlsOf("md")) + Cardinality(UrlsOf("html") \ UrlsOf("md"))
        /\ (\A i \in 1..Len(fragments) : fragments[i] \in TextFrags) => images = <<>>

C6_Witness ==
    /\ pc # "analyze"
    /\ Len(fragments) = 3
    /\ \A i \in 1..3 : fragments[i] \in ImageFrags
    /\ UrlsOf("md") = {Url(1)}
    /\ UrlsOf("html") = {Url(1), Url(2)}
    /\ Len(images) = 2

\* C7: extract_pr_details yields a title and a description that are text:
\* the event's title and body when it gives them, the empty text when the
\* key is absent or null; so a pull request without a body reaches the
\* Image Extractor with an empty description, no image is found and the
\* run goes on to the AI call.  The details never change once extracted and
\* are read here at the end of the run.
Given(key) ==
    /\ key \in DOMAIN context.v["pull_request"].v
    /\ context.v["pull_request"].v[key].t = "str"

C7_TitleAndDescriptionAreText ==
    (Exited /\ pr_details # None) =>
        /\ pr_details.v.title =
              (IF Given("title") THEN context.v["pull_request"].v["title"] ELSE Str(<<>>))
        /\ pr_details.v.description =
              (IF Given("body") THEN context.v["pull_request"].v["body"] ELSE Str(<<>>))
        /\ ~Given("body") => images = <<>> /\ CallsOf("generate_content") # {}

\* the image payloads of the multi-part request the claim C8 describes,
\* for the downloads that Use accepts
InferredMime(image_url) ==
    LET last == IF image_url = <<>> THEN "" ELSE image_url[Len(image_url)]
    IN  CASE last \in {".png", ".PNG"} -> "image/png"
          [] last \in {".gif", ".GIF"} -> "image/gif"
          [] last \in {".webp", ".WEBP"} -> "image/webp"
          [] OTHER -> "image/jpeg"

PartsOf(gets, Use(_)) ==
    LET RECURSIVE From(_)
        From(k) ==
            IF k > Len(gets) THEN <<>>
            ELSE (IF Use(gets[k])
                  THEN <<Dict([mime_type |-> Str(<<InferredMime(gets[k].url)>>),
                               data |-> gets[k].response.body])>>
                  ELSE <<>>) \o From(k + 1)
    IN  From(1)

Gets == SubSeq(calls, 1, Cardinality(CallsOf("GET")))

Got200(call) == call.response.exc = "" /\ call.response.status = 200

Got200WithContent(call) == Got200(call) /\ call.response.body.v # <<>>

MultiPartIff(Use(_)) ==
    \A i \in CallsOf("generate_content") :
        LET parts == PartsOf(Gets, Use)
        IN  /\ calls[i].sent.t = "list" <=> parts # <<>>
            /\ calls[i].sent.t = "list" =>
                  calls[i].sent.v = <<Str(Prompt(pr_details))>> \o parts
            /\ calls[i].sent.t # "list" => calls[i].sent = Str(Prompt(pr_details))

\* C8, as claimed: the model is sent a multi-part request (the prompt, then
\* the image payloads) exactly when a GET of this run answered 200, and the
\* text prompt alone otherwise; the payloads are those of the GETs that
\* answered 200, each with the MIME type of its own URL.
C8_MultiPartIffSome200 == MultiPartIff(Got200)

\* C8, amended: the same with "a GET answered 200 with a body that is not
\* empty" for "a GET answered 200": an empty body is not attached.
C8_MultiPartIffSomeContent == MultiPartIff(Got200WithContent)

C8_Witness ==
    /\ Len(calls) = 4
    /\ calls[1].op = "GET" /\ Got200(calls[1]) /\ ~Got200WithContent(calls[1])
    /\ calls[2].op = "GET" /\ Answered(2, 404)
    /\ calls[3].op = "GET" /\ Got200WithContent(calls[3])
    /\ InferredMime(calls[3].url) = "image/gif"
    /\ calls[4].op = "generate_content" /\ calls[4].sent.t = "list"
    /\ Len(calls[4].sent.v) = 2

\* C9: at most 3 image GETs are issued, the i-th for the i-th element of
\* the list extract_images_from_description returned; when the AI call is
\* made exactly min(3, length of the list) GETs were issued, whatever their
\* outcomes, and at most 3 payloads are attached to it.
C9_AtMostThreeImages ==
    /\ Cardinality(CallsOf("GET")) <= 3
    /\ \A i \in CallsOf("GET") : i <= Len(images) /\ calls[i].url = images[i]
    /\ Len(image_parts) <= 3
    /\ \A i \in CallsOf("generate_content") :
          /\ Cardinality(CallsOf("GET")) = Planned
          /\ calls[i].sent.t = "list" => Len(calls[i].sent.v) <= 1 + 3

C9_Witness ==
    /\ Len(images) >= 4
    /\ Len(calls) = 4
    /\ calls[1].op = "GET" /\ Answered(1, 404)
    /\ calls[2].op = "GET" /\ Got200WithContent(calls[2])
    /\ calls[3].op = "GET" /\ calls[3].response.exc = "Timeout"
    /\ calls[4].op = "generate_content"
    /\ Len(image_parts) = 1

\* C10: the outbound calls happen in sequence and none is repeated: first
\* the image GETs, each for another URL, then at most one generative-AI
\* call, made when every planned GET is done, then at most one comment
\* POST, made only after the AI call returned text.
Rank(op) == CASE op = "GET" -> 1 [] op = "generate_content" -> 2 [] OTHER -> 3

C10_CallsInSequenceOnce ==
    /\ \A i, j \in 1..Len(calls) : i < j => Rank(calls[i].op) <= Rank(calls[j].op)
    /\ \A i, j \in CallsOf("GET") : calls[i].url = calls[j].url => i = j
    /\ Cardinality(CallsOf("generate_content")) <= 1
    /\ Cardinality(CallsOf("POST")) <= 1
    /\ CallsOf("generate_content") # {} => Cardinality(CallsOf("GET")) = Planned
    /\ \A j \in CallsOf("POST") :
          \E i \in CallsOf("generate_content") : i < j /\ ReturnedText(i)

C10_Witness ==
    /\ Len(calls) = 5
    /\ \A i \in 1..3 : calls[i].op = "GET"
    /\ calls[4].op = "generate_content"
    /\ calls[5].op = "POST"
    /\ exit_status = <<0>>

=============================================================================
